---- MODULE Spec2Model ----
(***************************************************************************)
(* Model of aemet_temperaturas.py: the two-hop AEMET client, the           *)
(* municipality directory with its one-day cache, the temperature          *)
(* extractor, the two collection drivers and the accumulated 7-day JSON    *)
(* dataset.                                                                *)
(*                                                                         *)
(* Dates ("%Y-%m-%d" strings, compared as strings by the code) are day     *)
(* numbers: for four-digit years the string order is the calendar order.   *)
(* Municipality codes ("28079") are the numbers they spell; the province   *)
(* prefix cod_completo[:2] is the code divided by 1000.                    *)
(***************************************************************************)
EXTENDS Integers, Sequences, FiniteSets, TLC

VARIABLES
    \* --- the temperature extractor applied to one payload
    ex_datos, ex_objetivo, ex_res,
    \* --- one call of aemet_request
    rq_attempt, rq_pc, rq_requests, rq_hop2, rq_hist, rq_result, rq_last, rq_lib,
    \* --- what the program is invoked with and what the remote API answers
    modo,            \* "completo" | "capitales" (--solo-capitales)
    filtro,          \* --provincia: "" when not given
    env_maestros,    \* the answers /maestro/municipios may give
    env_resp,        \* codigo -> answer of the municipality's forecast request
    env_dur,         \* the durations (tenths of a second) a forecast request may take
    \* --- the files
    clock,           \* the calendar day datetime.now() falls on
    data_json,       \* JSON_FILE
    municipios_cache,\* MUNICIPIOS_CACHE
    \* --- one run of main()
    pc, salida, hoy, provincias_mun, cola, resultados, procesados, errores, medianoches,
    \* --- the clock and the rate limiter of the full-mode loop
    now, batch_count, batch_start, fetches, batch_fetches, controles, ultimo_control

ex_vars == <<ex_datos, ex_objetivo, ex_res>>
rq_vars == <<rq_attempt, rq_pc, rq_requests, rq_hop2, rq_hist, rq_result, rq_last, rq_lib>>
env_vars == <<modo, filtro, env_maestros, env_resp, env_dur>>
file_vars == <<data_json, municipios_cache>>
run_vars == <<pc, salida, hoy, provincias_mun, cola, resultados, procesados, errores,
              medianoches>>
rate_vars == <<now, batch_count, batch_start, fetches, batch_fetches, controles, ultimo_control>>
main_vars == <<env_vars, clock, file_vars, run_vars, rate_vars>>
vars == <<ex_vars, rq_vars, main_vars>>

(***************************************************************************)
(* JSON values as the extractor meets them.  k is the Python type of the   *)
(* value, v what int() makes of it when int() succeeds.                    *)
(***************************************************************************)
None == [k |-> "None", v |-> 0]
NoKey == [k |-> "nokey", v |-> 0]            \* the key is not in the dict
PyIntVal(n) == [k |-> "int", v |-> n]
PyStrNum(n) == [k |-> "str", v |-> n]        \* a string spelling the integer n
PyStrBad == [k |-> "badstr", v |-> 0]        \* a string int() rejects: ValueError
PyFloat(tenths) == [k |-> "float", v |-> tenths]   \* the float tenths/10
PyObj == [k |-> "obj", v |-> 0]              \* a list or dict: int() raises TypeError

\* d.get(key): the value, or None when the key is missing
Get(x) == IF x = NoKey THEN None ELSE x
\* d.get(key, default)
GetDefault(x, default) == IF x = NoKey THEN default ELSE x

\* int(x) of Python: [ok, v]; floats truncate toward zero
PyInt(x) ==
    CASE x.k = "int" -> [ok |-> TRUE, v |-> x.v]
      [] x.k = "str" -> [ok |-> TRUE, v |-> x.v]
      [] x.k = "float" -> [ok |-> TRUE,
                           v |-> IF x.v >= 0 THEN x.v \div 10 ELSE -((-x.v) \div 10)]
      [] OTHER -> [ok |-> FALSE, v |-> 0]

\* lines 242-249: int(t) if t is not None else None; on ValueError/TypeError
\* the except clause passes and the variable keeps the raw value
ConvertirAInt(t) ==
    IF t = None THEN None
    ELSE IF PyInt(t).ok THEN PyIntVal(PyInt(t).v)
    ELSE t

(***************************************************************************)
(* Forecast payloads.  datos.forma is the shape of the top-level value:    *)
(*   "ok"      a list whose first element is a dict with prediccion.dia    *)
(*   "dict"    a dict: datos[0] raises KeyError (caught)                   *)
(*   "vacia"   an empty list: datos[0] raises IndexError (caught)          *)
(*   "no_dict" a list of non-dicts: datos[0].get raises AttributeError,    *)
(*             which the except clause of line 238 does not name           *)
(* A day entry is [fecha, temperatura]; fecha is [d, sufijo], the string   *)
(* "<date d><sufijo>".  A temperature block is [tipo, maxima, minima,      *)
(* items]: tipo "dict" reads maxima/minima, tipo "list" reads items, each  *)
(* [descripcion, periodo, valor, value]; any other tipo is read by neither *)
(* branch.                                                                 *)
(***************************************************************************)
SinFecha == [d |-> -1, sufijo |-> ""]        \* dia.get("fecha", "") default
Fecha(d) == [d |-> d, sufijo |-> "T00:00:00"]
\* fecha[:10] == fecha_objetivo
Prefix10(f) == f.d

TempDict(mx, mn) == [tipo |-> "dict", maxima |-> mx, minima |-> mn, items |-> <<>>]
TempList(items) == [tipo |-> "list", maxima |-> NoKey, minima |-> NoKey, items |-> items]
TempOtro == [tipo |-> "otro", maxima |-> NoKey, minima |-> NoKey, items |-> <<>>]
Item(desc, per, valor, value) ==
    [descripcion |-> desc, periodo |-> per, valor |-> valor, value |-> value]

\* lines 223-227: the loop over the period entries, later entries overriding
RECURSIVE LeerLista(_, _)
LeerLista(items, acc) ==
    IF items = <<>> THEN acc
    ELSE LET t == Head(items)
             val == GetDefault(t.valor, Get(t.value))
             mx == IF t.descripcion = "Máxima" \/ t.periodo = "00-24"
                   THEN val ELSE acc.t_max
             mn == IF t.descripcion = "Mínima" THEN val ELSE acc.t_min
         IN LeerLista(Tail(items), [t_min |-> mn, t_max |-> mx])

\* lines 218-227: the block of the entry that matches the target date
LeerTemperaturaMatch(temps) ==
    CASE temps.tipo = "dict" -> [t_min |-> Get(temps.minima), t_max |-> Get(temps.maxima)]
      [] temps.tipo = "list" -> LeerLista(temps.items, [t_min |-> None, t_max |-> None])
      [] OTHER -> [t_min |-> None, t_max |-> None]

\* lines 233-236: the first day's block, read only when it is a dict
LeerTemperaturaPrimerDia(temps) ==
    IF temps.tipo = "dict"
    THEN [t_min |-> Get(temps.minima), t_max |-> Get(temps.maxima)]
    ELSE [t_min |-> None, t_max |-> None]

\* index of the first entry whose date prefix is the target, 0 if none
RECURSIVE PrimerMatch(_, _, _)
PrimerMatch(dias, objetivo, i) ==
    IF i > Len(dias) THEN 0
    ELSE IF Prefix10(dias[i].fecha) = objetivo THEN i
    ELSE PrimerMatch(dias, objetivo, i + 1)

\* lines 215-236
BuscarDia(dias, objetivo) ==
    LET i == PrimerMatch(dias, objetivo, 1)
        m == IF i = 0 THEN [t_min |-> None, t_max |-> None]
             ELSE LeerTemperaturaMatch(dias[i].temperatura)
    IN IF m.t_min = None /\ m.t_max = None /\ dias # <<>>
       THEN LeerTemperaturaPrimerDia(dias[1].temperatura)
       ELSE m

\* _extraer_temp_dia(datos, fecha_objetivo): [exc, t_min, t_max]
_extraer_temp_dia(datos, fecha_objetivo) ==
    IF datos.forma = "no_dict"
    THEN [exc |-> "AttributeError", t_min |-> None, t_max |-> None]
    ELSE LET r == IF datos.forma = "ok" THEN BuscarDia(datos.dias, fecha_objetivo)
                  ELSE [t_min |-> None, t_max |-> None]
         IN [exc |-> "", t_min |-> ConvertirAInt(r.t_min), t_max |-> ConvertirAInt(r.t_max)]

Payload(dias) == [forma |-> "ok", dias |-> dias]

\* --- the payloads the extractor is tried on
MaxDias == 2
MaxItems == 2
ExValores == {NoKey, None, PyIntVal(3), PyIntVal(20), PyStrNum(7), PyStrBad, PyFloat(-15)}
ExItems == { Item("Máxima", "", PyIntVal(5), NoKey),
             Item("Mínima", "", PyIntVal(1), NoKey),
             Item("", "00-24", NoKey, PyIntVal(8)),
             Item("Mínima", "", PyStrBad, NoKey) }
SeqsUpTo(S, n) == UNION { [1..k -> S] : k \in 0..n }
ExBloques == { TempDict(mx, mn) : mx \in ExValores, mn \in ExValores }
             \cup { TempList(s) : s \in SeqsUpTo(ExItems, MaxItems) }
             \cup { TempOtro }
ExFechas == { Fecha(1), Fecha(2) }
ExEntradas == { [fecha |-> f, temperatura |-> b] : f \in ExFechas, b \in ExBloques }
ExPayloads == { Payload(s) : s \in SeqsUpTo(ExEntradas, MaxDias) }
              \cup { [forma |-> f, dias |-> <<>>] : f \in {"dict", "vacia", "no_dict"} }
ExObjetivos == 0..1

ExPendiente == [hecho |-> FALSE, exc |-> "", t_min |-> None, t_max |-> None]

ExIdle == /\ ex_datos = Payload(<<>>) /\ ex_objetivo = 0 /\ ex_res = ExPendiente

ExInit ==
    /\ ex_datos \in ExPayloads
    /\ ex_objetivo \in ExObjetivos
    /\ ex_res = ExPendiente

Extraer ==
    /\ ~ex_res.hecho
    /\ LET r == _extraer_temp_dia(ex_datos, ex_objetivo)
       IN ex_res' = [hecho |-> TRUE, exc |-> r.exc, t_min |-> r.t_min, t_max |-> r.t_max]
    /\ UNCHANGED <<ex_datos, ex_objetivo>>

(***************************************************************************)
(* aemet_request(endpoint, api_key, params, max_retries=3), lines 103-144. *)
(* One action is one pass of the for loop; what the server answers in that *)
(* pass is the action's input, a record                                    *)
(*   [net1, s1, json1, estado, datos, net2, s2, json2]                     *)
(* net1/net2: the request raised requests.RequestException; s1/s2: the     *)
(* HTTP status; json1/json2: the body is "ok", "bad" (not JSON) or, for    *)
(* the first hop, "not_dict" (JSON, but not an object); estado and datos:  *)
(* the envelope's fields.  rq_hist records, per pass, the attempt index,   *)
(* the branch taken and the sleep issued (0: none); rq_last is the answer   *)
(* of the pass that ended the call.                                        *)
(*                                                                         *)
(* resp.json() on a body that is not JSON raises json.JSONDecodeError,     *)
(* which in requests >= 2.27 is also a requests.RequestException: the      *)
(* first except clause then takes it and the call is retried.  rq_lib is   *)
(* the library the program runs with.                                      *)
(***************************************************************************)
max_retries == 3
RATE_LIMIT_WAIT == 30
NETWORK_WAIT == 5

HTTP_OK == 200
HTTP_TOO_MANY == 429
HTTP_NOT_FOUND == 404

RqRespuestas ==
    [net1 : BOOLEAN, s1 : {HTTP_OK, HTTP_TOO_MANY, HTTP_NOT_FOUND},
     json1 : {"ok", "bad", "not_dict"}, estado : {HTTP_OK, HTTP_NOT_FOUND},
     datos : BOOLEAN, net2 : BOOLEAN, s2 : {HTTP_OK, HTTP_NOT_FOUND},
     json2 : {"ok", "bad"}]

RqSinRespuesta ==
    [net1 |-> FALSE, s1 |-> HTTP_OK, json1 |-> "ok", estado |-> HTTP_OK,
     datos |-> FALSE, net2 |-> FALSE, s2 |-> HTTP_OK, json2 |-> "ok"]

\* a body that is not JSON: which except clause takes the error
BadJson(lib) == IF lib = "requests>=2.27" THEN "RequestException" ELSE "return_none"

\* RqBranch without the envelope check of lines 122-124
RqBranch_NoEstado(r, lib) ==
    CASE r.net1 -> "RequestException"
      [] ~r.net1 /\ r.s1 = HTTP_TOO_MANY -> "rate_limited"
      [] ~r.net1 /\ r.s1 \notin {HTTP_TOO_MANY, HTTP_OK} -> "return_none"
      [] OTHER ->
           IF r.json1 = "bad" THEN BadJson(lib)
           ELSE IF r.json1 = "not_dict" THEN "AttributeError"
           ELSE IF ~r.datos THEN "return_none"
           ELSE IF r.net2 THEN "RequestException"
           ELSE IF r.s2 # HTTP_OK THEN "return_none"
           ELSE IF r.json2 = "bad" THEN BadJson(lib)
           ELSE "return_payload"

\* lines 110-142: the branch one pass of the loop takes on an answer
RqBranch(r, lib) ==
    CASE r.net1 -> "RequestException"
      [] ~r.net1 /\ r.s1 = HTTP_TOO_MANY -> "rate_limited"
      [] ~r.net1 /\ r.s1 \notin {HTTP_TOO_MANY, HTTP_OK} -> "return_none"
      [] OTHER ->
           IF r.json1 = "bad" THEN BadJson(lib)
           ELSE IF r.json1 = "not_dict" THEN "AttributeError"
           ELSE IF r.estado # HTTP_OK THEN "return_none"
           ELSE IF ~r.datos THEN "return_none"
           ELSE IF r.net2 THEN "RequestException"
           ELSE IF r.s2 # HTTP_OK THEN "return_none"
           ELSE IF r.json2 = "bad" THEN BadJson(lib)
           ELSE "return_payload"

\* the number of HTTP requests a pass issues: the second hop is reached only
\* through lines 112-128
RqSecondHop(r) ==
    ~r.net1 /\ r.s1 = HTTP_OK /\ r.json1 = "ok" /\ r.estado = HTTP_OK /\ r.datos

RqInit ==
    /\ rq_attempt = 0 /\ rq_pc = "idle" /\ rq_requests = 0 /\ rq_hop2 = 0
    /\ rq_hist = <<>> /\ rq_result = "none" /\ rq_last = RqSinRespuesta
    /\ rq_lib \in {"requests>=2.27", "requests<2.27"}

RqIdle ==
    /\ rq_attempt = 0 /\ rq_pc = "idle" /\ rq_requests = 0 /\ rq_hop2 = 0
    /\ rq_hist = <<>> /\ rq_result = "none" /\ rq_last = RqSinRespuesta
    /\ rq_lib = "requests>=2.27"

\* the call: for attempt in range(max_retries)
RqCall ==
    /\ rq_pc = "idle"
    /\ rq_pc' = "loop"
    /\ UNCHANGED <<rq_attempt, rq_requests, rq_hop2, rq_hist, rq_result, rq_last, rq_lib>>

RqPass(r, sleep) ==
    /\ rq_hist' = Append(rq_hist, [attempt |-> rq_attempt,
                                   branch |-> RqBranch(r, rq_lib), sleep |-> sleep])
    /\ rq_requests' = rq_requests + 1
    /\ rq_hop2' = rq_hop2 + (IF RqSecondHop(r) THEN 1 ELSE 0)
    /\ rq_lib' = rq_lib

\* `continue`: the loop's next pass, or line 144 once range(max_retries) is
\* exhausted
RqContinue(r, sleep) ==
    /\ RqPass(r, sleep)
    /\ rq_last' = rq_last
    /\ rq_attempt' = rq_attempt + 1
    /\ IF rq_attempt + 1 < max_retries
       THEN rq_pc' = "loop" /\ rq_result' = rq_result
       ELSE rq_pc' = "done" /\ rq_result' = "None"

RqReturn(r, result) ==
    /\ RqPass(r, 0)
    /\ rq_last' = r
    /\ rq_pc' = "done"
    /\ rq_result' = result
    /\ rq_attempt' = rq_attempt

\* lines 112-116: HTTP 429
RqRateLimited ==
    /\ rq_pc = "loop"
    /\ \E r \in RqRespuestas :
          /\ RqBranch(r, rq_lib) = "rate_limited"
          /\ RqContinue(r, RATE_LIMIT_WAIT * (rq_attempt + 1))

\* lines 136-140: except requests.RequestException
RqRequestException ==
    /\ rq_pc = "loop"
    /\ \E r \in RqRespuestas :
          /\ RqBranch(r, rq_lib) = "RequestException"
          /\ IF rq_attempt < max_retries - 1
             THEN RqContinue(r, NETWORK_WAIT)
             ELSE RqReturn(r, "None")

\* lines 118-132 and 141-142: return None
RqReturnNone ==
    /\ rq_pc = "loop"
    /\ \E r \in RqRespuestas :
          /\ RqBranch(r, rq_lib) = "return_none"
          /\ RqReturn(r, "None")

\* line 123: meta.get on a JSON body that is not an object raises
\* AttributeError, which no except clause names
RqMetaNotDict ==
    /\ rq_pc = "loop"
    /\ \E r \in RqRespuestas :
          /\ RqBranch(r, rq_lib) = "AttributeError"
          /\ RqReturn(r, "raise")

\* line 134: return resp2.json()
RqReturnPayload ==
    /\ rq_pc = "loop"
    /\ \E r \in RqRespuestas :
          /\ RqBranch(r, rq_lib) = "return_payload"
          /\ RqReturn(r, "payload")

(***************************************************************************)
(* The municipality directory: obtener_municipios, lines 147-203.          *)
(*                                                                         *)
(* A master-list entry is [idpref, cod, nombre, num_hab]: idpref says      *)
(* whether the "id" field starts with "id", cod is the number after it.    *)
(* A directory (the dict obtener_municipios returns) is a function from    *)
(* province names to sequences of municipalities.                          *)
(***************************************************************************)
PROVINCIAS ==
    <<
    "Álava", "Albacete", "Alicante", "Almería", "Ávila", "Badajoz",
    "Baleares", "Barcelona", "Burgos", "Cáceres", "Cádiz", "Castellón",
    "Ciudad Real", "Córdoba", "A Coruña", "Cuenca", "Girona", "Granada",
    "Guadalajara", "Gipuzkoa", "Huelva", "Huesca", "Jaén", "León",
    "Lleida", "La Rioja", "Lugo", "Madrid", "Málaga", "Murcia",
    "Navarra", "Ourense", "Asturias", "Palencia", "Las Palmas", "Pontevedra",
    "Salamanca", "S.C. Tenerife", "Cantabria", "Segovia", "Sevilla", "Soria",
    "Tarragona", "Teruel", "Toledo", "Valencia", "Valladolid", "Bizkaia",
    "Zamora", "Zaragoza", "Ceuta", "Melilla"
    >>

\* f"Provincia {cod_prov}" for the one province code outside the table that
\* the modelled master lists use, 99
ProvinciaDesconocida == "Provincia 99"

\* sorted() over every province name of the model: Python orders str by code
\* point, so the accented capitals come last
OrdenProvincias ==
    <<
    "A Coruña", "Albacete", "Alicante", "Almería", "Asturias", "Badajoz",
    "Baleares", "Barcelona", "Bizkaia", "Burgos", "Cantabria", "Castellón",
    "Ceuta", "Ciudad Real", "Cuenca", "Cáceres", "Cádiz", "Córdoba",
    "Gipuzkoa", "Girona", "Granada", "Guadalajara", "Huelva", "Huesca",
    "Jaén", "La Rioja", "Las Palmas", "León", "Lleida", "Lugo",
    "Madrid", "Melilla", "Murcia", "Málaga", "Navarra", "Ourense",
    "Palencia", "Pontevedra", "Provincia 99", "S.C. Tenerife", "Salamanca",
    "Segovia", "Sevilla", "Soria", "Tarragona", "Teruel", "Toledo", "Valencia",
    "Valladolid", "Zamora", "Zaragoza", "Álava", "Ávila"
    >>

CAPITALES_CODIGOS ==
    {
    1059, 2003, 3014, 4013, 5019, 6015, 7040, 8019,
    9059, 10037, 11012, 12040, 13034, 14021, 15030, 16078,
    17079, 18087, 19130, 20069, 21041, 22125, 23050, 24089,
    25120, 26089, 27028, 28079, 29067, 30030, 31201, 32054,
    33044, 34120, 35016, 36038, 37274, 38038, 39075, 40194,
    41091, 42173, 43148, 44216, 45168, 46250, 47186, 48020,
    49275, 50297, 51001, 52001
    }

\* cod_completo[:2] of a five-digit code
CodProv(cod) == cod \div 1000

\* PROVINCIAS.get(cod_prov, f"Provincia {cod_prov}")
NombreProvincia(cod_prov) ==
    IF cod_prov \in DOMAIN PROVINCIAS THEN PROVINCIAS[cod_prov] ELSE ProvinciaDesconocida

\* int(mun.get("num_hab", "0") or "0")
Habitantes(num_hab) == IF num_hab \in {NoKey, None} THEN 0 ELSE PyInt(num_hab).v

\* lines 182-188
Municipio(mun) ==
    [codigo |-> mun.cod, nombre |-> mun.nombre, habitantes |-> Habitantes(mun.num_hab),
     altitud |-> 0, es_capital |-> mun.cod \in CAPITALES_CODIGOS]

EmptyDict == [x \in {} |-> <<>>]

\* lines 173-188: provincias[nombre_prov].append(...) in the order of the
\* master list, entries whose id does not start with "id" skipped
Agrupar(datos) ==
    LET validos == SelectSeq(datos, LAMBDA mun : mun.idpref)
        prov(mun) == NombreProvincia(CodProv(mun.cod))
        de(p) == SelectSeq(validos, LAMBDA mun : prov(mun) = p)
    IN [p \in {prov(validos[i]) : i \in DOMAIN validos} |->
           [i \in 1..Len(de(p)) |-> Municipio(de(p)[i])]]

\* the place list.sort(key=habitantes, reverse=True) gives element i: after
\* every element with a larger key and, the sort being stable, after the
\* earlier elements with an equal key
PuestoPorHabitantes(lista, i) ==
    1 + Cardinality({j \in DOMAIN lista :
                        \/ lista[j].habitantes > lista[i].habitantes
                        \/ lista[j].habitantes = lista[i].habitantes /\ j < i})

\* lines 191-192
OrdenarPorHabitantes(lista) ==
    [k \in 1..Len(lista) |->
        lista[CHOOSE i \in DOMAIN lista : PuestoPorHabitantes(lista, i) = k]]

\* AgruparYOrdenar without the sort of lines 191-192
AgruparYOrdenar_SinOrdenar(datos) == Agrupar(datos)

\* lines 172-192: the grouped directory, each province sorted
AgruparYOrdenar(datos) ==
    LET g == Agrupar(datos)
    IN [p \in DOMAIN g |-> OrdenarPorHabitantes(g[p])]

CacheMissing == [estado |-> "missing", fecha |-> -1, total |-> 0, provincias |-> EmptyDict]
CacheCorrupt == [estado |-> "corrupt", fecha |-> -1, total |-> 0, provincias |-> EmptyDict]

RECURSIVE SumLen(_, _)
SumLen(d, keys) ==
    IF keys = {} THEN 0
    ELSE LET k == CHOOSE x \in keys : TRUE IN Len(d[k]) + SumLen(d, keys \ {k})

\* lines 195-201: the cache file written after a download
CacheDe(provincias, fecha) ==
    [estado |-> "ok", fecha |-> fecha, total |-> SumLen(provincias, DOMAIN provincias),
     provincias |-> provincias]

MaestroFallo == [ok |-> FALSE, lista |-> <<>>]
MaestroOk(lista) == [ok |-> TRUE, lista |-> lista]

(***************************************************************************)
(* The collection drivers: obtener_temperaturas_completo (lines 254-360)   *)
(* and obtener_temperaturas_capitales (lines 363-404).                     *)
(***************************************************************************)
BATCH_SIZE == 22
BATCH_PAUSE == 62
\* time is counted in tenths of a second
Segundos(s) == s * 10
PAUSA_REQUEST == 1         \* time.sleep(0.1)
PAUSA_CAPITAL == 3         \* time.sleep(0.3)

\* filtro_provincia.lower() in k.lower(), for the filters the model passes
FiltroCoincide(f, nombre) ==
    \/ f = "madr" /\ nombre = "Madrid"
    \/ f = "PROV" /\ nombre = "Provincia 99"

\* lines 266-270
Filtrar(provincias, f) ==
    IF f = "" THEN provincias
    ELSE [p \in {q \in DOMAIN provincias : FiltroCoincide(f, q)} |-> provincias[p]]

\* lines 371-373: the flagged municipalities, else the first of the list
Capitales(municipios) ==
    LET capitales == SelectSeq(municipios, LAMBDA m : m.es_capital)
    IN IF capitales = <<>> THEN SubSeq(municipios, 1, IF Len(municipios) >= 1 THEN 1 ELSE 0)
       ELSE capitales

Programar(prov, municipios) ==
    [i \in 1..Len(municipios) |-> [provincia |-> prov, mun |-> municipios[i]]]

\* the municipalities in the order the nested loops visit them:
\* sorted(provincias_mun) outside, the province's list (or Capitales of it)
\* inside
RECURSIVE Recorrido(_, _, _)
Recorrido(provincias, m, i) ==
    IF i > Len(OrdenProvincias) THEN <<>>
    ELSE LET p == OrdenProvincias[i]
             aqui == IF p \notin DOMAIN provincias THEN <<>>
                     ELSE IF m = "capitales" THEN Programar(p, Capitales(provincias[p]))
                     ELSE Programar(p, provincias[p])
         IN aqui \o Recorrido(provincias, m, i + 1)

\* lines 316-325, 331-340, 385-394: the record of one municipality
Registro(prov, mun, t_min, t_max, fecha, m) ==
    [municipio |-> mun.nombre, codigo |-> mun.codigo, provincia |-> prov,
     habitantes |-> mun.habitantes,
     es_capital |-> IF m = "capitales" THEN TRUE ELSE mun.es_capital,
     t_min |-> t_min, t_max |-> t_max, fecha |-> fecha]

\* datos_prov.append(...) and resultados[nombre_prov] = datos_prov: resultados
\* is the sequence of [provincia, datos] in insertion order
Anotar(res, reg) ==
    IF res # <<>> /\ res[Len(res)].provincia = reg.provincia
    THEN [res EXCEPT ![Len(res)].datos = Append(@, reg)]
    ELSE Append(res, [provincia |-> reg.provincia, datos |-> <<reg>>])

SinRespuesta == [forma |-> "None", dias |-> <<>>]
\* `if not datos` / `if datos`: None and the empty containers are falsy
Falsy(datos) == datos.forma \in {"None", "vacia"}

\* the run's variables when no run is in progress
RunReset ==
    /\ hoy' = 0 /\ provincias_mun' = EmptyDict /\ cola' = <<>> /\ resultados' = <<>>
    /\ procesados' = 0 /\ errores' = 0

RateReset ==
    /\ now' = 0 /\ batch_count' = 0 /\ batch_start' = 0 /\ fetches' = 0
    /\ batch_fetches' = 0 /\ controles' = 0
    /\ ultimo_control' = [antes_de |-> 0, elapsed |-> 0, wait |-> 0, ventana |-> 0]

\* the process ends (return from main, sys.exit or an uncaught exception)
Terminar(como) ==
    /\ pc' = "idle" /\ salida' = como
    /\ RunReset /\ RateReset
    /\ UNCHANGED medianoches

\* main(), lines 488-496, up to the collector's first statement (lines 259,
\* 365): hoy = datetime.now().strftime("%Y-%m-%d")
Iniciar ==
    /\ pc = "idle"
    /\ pc' = "cache" /\ salida' = "running" /\ hoy' = clock
    /\ UNCHANGED <<provincias_mun, cola, resultados, procesados, errores, medianoches>>
    /\ UNCHANGED <<env_vars, clock, file_vars, rate_vars>>

\* lines 262-288 and 366-370 once the directory is known: the early returns
\* (main then exits with status 1 at line 500) or the start of the loops
EmpezarRecoleccion(provincias) ==
    LET filtradas == IF modo = "completo" THEN Filtrar(provincias, filtro) ELSE provincias
        recorrido == Recorrido(filtradas, modo, 1)
    IN IF recorrido = <<>>
       THEN Terminar("exit1")
       ELSE /\ pc' = "loop" /\ provincias_mun' = filtradas /\ cola' = recorrido
            /\ UNCHANGED <<salida, hoy, resultados, procesados, errores, medianoches>>
            /\ UNCHANGED rate_vars

\* obtener_municipios, lines 153-160: today's cache is returned as it is
ObtenerMunicipiosCache ==
    /\ pc = "cache"
    /\ IF municipios_cache.estado = "ok" /\ municipios_cache.fecha = clock
       THEN EmpezarRecoleccion(municipios_cache.provincias)
       ELSE /\ pc' = "maestro"
            /\ UNCHANGED <<salida, hoy, provincias_mun, cola, resultados, procesados,
                           errores, medianoches>>
            /\ UNCHANGED rate_vars
    /\ UNCHANGED <<env_vars, clock, file_vars>>

\* obtener_municipios, lines 162-203: the download, the stale-cache fallback
\* of lines 166-170 (json.loads outside any try) or the fresh cache
ObtenerMunicipiosRemoto ==
    /\ pc = "maestro"
    /\ \E datos \in env_maestros :
          IF ~datos.ok \/ datos.lista = <<>>
          THEN /\ CASE municipios_cache.estado = "missing" -> EmpezarRecoleccion(EmptyDict)
                    [] municipios_cache.estado = "corrupt" -> Terminar("JSONDecodeError")
                    [] OTHER -> EmpezarRecoleccion(municipios_cache.provincias)
               /\ UNCHANGED municipios_cache
          ELSE LET provincias == AgruparYOrdenar(datos.lista)
               IN /\ municipios_cache' = CacheDe(provincias, clock)
                  /\ EmpezarRecoleccion(provincias)
    /\ UNCHANGED <<env_vars, clock, data_json>>

\* line 302
HayControl(bc) == bc >= BATCH_SIZE
\* EsperaLote sleeping a second short of the window
EsperaLote_Corta(elapsed) ==
    IF elapsed < Segundos(BATCH_PAUSE - 1) THEN Segundos(BATCH_PAUSE - 1) - elapsed ELSE 0

\* lines 303-307: the sleep at a batch boundary
EsperaLote(elapsed) ==
    IF elapsed < Segundos(BATCH_PAUSE) THEN Segundos(BATCH_PAUSE) - elapsed ELSE 0

\* the rest of an iteration once the request has answered: the record, the
\* counters, the pause after the request
Procesar(item, r, fallo, fin) ==
    /\ resultados' = Anotar(resultados,
                            Registro(item.provincia, item.mun, r.t_min, r.t_max, hoy, modo))
    /\ errores' = errores + (IF fallo /\ modo = "completo" THEN 1 ELSE 0)
    /\ procesados' = procesados + (IF fallo /\ modo = "completo" THEN 0 ELSE 1)
    /\ cola' = Tail(cola)
    /\ pc' = IF Tail(cola) = <<>> THEN "guardar" ELSE "loop"
    /\ now' = fin + (IF modo = "completo" THEN PAUSA_REQUEST ELSE PAUSA_CAPITAL)
    /\ fetches' = fetches + 1
    /\ UNCHANGED <<salida, hoy, provincias_mun, medianoches>>

\* lines 312-329 and 379-383: the request's answer and what is read from it
Leer(datos, fecha) ==
    IF Falsy(datos) THEN [exc |-> "", t_min |-> None, t_max |-> None]
    ELSE _extraer_temp_dia(datos, fecha)

\* one iteration of the loop of lines 296-352
FetchCompleto ==
    /\ pc = "loop" /\ modo = "completo"
    /\ \E d \in env_dur :
          LET item == Head(cola)
              datos == env_resp[item.mun.codigo]
              r == Leer(datos, hoy)
              control == HayControl(batch_count + 1)
              elapsed == now - batch_start
              wait == IF control THEN EsperaLote(elapsed) ELSE 0
              emitido == now + wait
          IN IF r.exc # "" THEN Terminar(r.exc)
             ELSE /\ batch_count' = IF control THEN 0 ELSE batch_count + 1
                  /\ batch_start' = IF control THEN emitido ELSE batch_start
                  /\ batch_fetches' = (IF control THEN 0 ELSE batch_fetches) + 1
                  /\ controles' = controles + (IF control THEN 1 ELSE 0)
                  /\ ultimo_control' =
                        IF control
                        THEN [antes_de |-> fetches + 1, elapsed |-> elapsed, wait |-> wait,
                              ventana |-> emitido - batch_start]
                        ELSE ultimo_control
                  /\ Procesar(item, r, Falsy(datos), emitido + d)
    /\ UNCHANGED <<env_vars, clock, file_vars>>

\* one iteration of the loop of lines 376-399
FetchCapital ==
    /\ pc = "loop" /\ modo = "capitales"
    /\ \E d \in env_dur :
          LET item == Head(cola)
              datos == env_resp[item.mun.codigo]
              r == Leer(datos, hoy)
          IN IF r.exc # "" THEN Terminar(r.exc)
             ELSE /\ Procesar(item, r, Falsy(datos), now + d)
                  /\ UNCHANGED <<batch_count, batch_start, batch_fetches, controles,
                                 ultimo_control>>
    /\ UNCHANGED <<env_vars, clock, file_vars>>

(***************************************************************************)
(* The dataset store: guardar_json, lines 407-466.                         *)
(***************************************************************************)
dias_retener == 7

DataMissing ==
    [estado |-> "missing", actualizado |-> -1, dias_disponibles |-> <<>>,
     total_municipios |-> 0, registros |-> <<>>]
DataCorrupt ==
    [estado |-> "corrupt", actualizado |-> -1, dias_disponibles |-> <<>>,
     total_municipios |-> 0, registros |-> <<>>]

\* line 436: (t_min + t_max) / 2 raises TypeError unless both are numbers
MediaTypeError(t_min, t_max) ==
    t_min # None /\ t_max # None /\ ~(t_min.k = "int" /\ t_max.k = "int")
\* round((t_min + t_max) / 2, 1): a float, in tenths
Media(t_min, t_max) ==
    IF t_min # None /\ t_max # None THEN PyFloat((t_min.v + t_max.v) * 5) ELSE None

\* lines 437-447
RegistroHoy(nombre_prov, d) ==
    [nombre |-> d.municipio, codigo |-> d.codigo, provincia |-> nombre_prov,
     hab |-> d.habitantes, min |-> d.t_min, max |-> d.t_max,
     media |-> Media(d.t_min, d.t_max), fecha |-> d.fecha, capital |-> d.es_capital]

RECURSIVE Aplanar(_)
Aplanar(res) ==
    IF res = <<>> THEN <<>>
    ELSE [i \in 1..Len(Head(res).datos) |-> RegistroHoy(Head(res).provincia, Head(res).datos[i])]
         \o Aplanar(Tail(res))

\* line 425
SinLosDeHoy(registros, hoy_g) == SelectSeq(registros, LAMBDA r : r.fecha # hoy_g)
\* Podar with > for >=
Podar_Estricto(registros, fecha_limite) == SelectSeq(registros, LAMBDA r : r.fecha > fecha_limite)

\* line 428
Podar(registros, fecha_limite) == SelectSeq(registros, LAMBDA r : r.fecha >= fecha_limite)

RECURSIVE Sorted(_)
Sorted(S) ==
    IF S = {} THEN <<>>
    ELSE LET m == CHOOSE x \in S : \A y \in S : x <= y IN <<m>> \o Sorted(S \ {m})

\* lines 411-461: the object guardar_json writes
Fusionar(anterior, datos_por_provincia, ahora) ==
    LET hoy_g == ahora
        fecha_limite == ahora - dias_retener
        cargados == IF anterior.estado = "ok" THEN anterior.registros ELSE <<>>
        registros_existentes == Podar(SinLosDeHoy(cargados, hoy_g), fecha_limite)
        todos_registros == registros_existentes \o Aplanar(datos_por_provincia)
    IN [estado |-> "ok", actualizado |-> ahora,
        dias_disponibles |-> Sorted({todos_registros[i].fecha : i \in DOMAIN todos_registros}),
        total_municipios |-> Cardinality({todos_registros[i].codigo : i \in DOMAIN todos_registros}),
        registros |-> todos_registros]

\* main(), lines 498-510: guardar_json(datos_por_provincia)
GuardarJson ==
    /\ pc = "guardar"
    /\ IF \E i \in DOMAIN resultados : \E j \in DOMAIN resultados[i].datos :
             MediaTypeError(resultados[i].datos[j].t_min, resultados[i].datos[j].t_max)
       THEN Terminar("TypeError") /\ UNCHANGED data_json
       ELSE /\ data_json' = Fusionar(data_json, resultados, clock)
            /\ Terminar("ok")
    /\ UNCHANGED <<env_vars, clock, municipios_cache>>

\* midnight.  Between runs any number of days may pass; medianoches counts
\* the midnights that fell inside a run.
MaxDay == 8
MaxMedianoches == 1
Tick ==
    /\ clock < MaxDay
    /\ pc = "idle" \/ medianoches < MaxMedianoches
    /\ clock' = clock + 1
    /\ medianoches' = IF pc = "idle" THEN medianoches ELSE medianoches + 1
    /\ UNCHANGED <<env_vars, file_vars, pc, salida, hoy, provincias_mun, cola, resultados,
                   procesados, errores>>
    /\ UNCHANGED rate_vars

\* ------------------------------------------------------------------------
\* Specifications
\* ------------------------------------------------------------------------

\* --- what the remote API serves in the model
Entrada(cod, nombre, hab) ==
    [idpref |-> TRUE, cod |-> cod, nombre |-> nombre, num_hab |-> PyStrNum(hab)]

\* a forecast with one day entry, temperatures as AEMET serves them
PayloadNormal ==
    Payload(<< [fecha |-> Fecha(0), temperatura |-> TempDict(PyIntVal(20), PyIntVal(11))] >>)

\* a JSON list whose first element is not an object
PayloadSinDict == [forma |-> "no_dict", dias |-> <<>>]

RunIdle ==
    /\ pc = "idle" /\ salida = "none" /\ hoy = 0 /\ provincias_mun = EmptyDict
    /\ cola = <<>> /\ resultados = <<>> /\ procesados = 0 /\ errores = 0 /\ medianoches = 0

RateIdle ==
    /\ now = 0 /\ batch_count = 0 /\ batch_start = 0 /\ fetches = 0
    /\ batch_fetches = 0 /\ controles = 0
    /\ ultimo_control = [antes_de |-> 0, elapsed |-> 0, wait |-> 0, ventana |-> 0]

MainIdle ==
    /\ modo = "completo" /\ filtro = "" /\ env_maestros = {} /\ env_resp = <<>>
    /\ env_dur = {} /\ clock = 0 /\ data_json = DataMissing
    /\ municipios_cache = CacheMissing
    /\ RunIdle /\ RateIdle

\* --- the extractor on its own
ExtractInit == ExInit /\ RqIdle /\ MainIdle
ExtractNext == Extraer /\ UNCHANGED <<rq_vars, main_vars>>
SpecExtract == ExtractInit /\ [][ExtractNext]_vars

\* --- one call of aemet_request
RequestInit == RqInit /\ ExIdle /\ MainIdle
RequestNext ==
    \/ RqCall /\ UNCHANGED <<ex_vars, main_vars>>
    \/ RqRateLimited /\ UNCHANGED <<ex_vars, main_vars>>
    \/ RqRequestException /\ UNCHANGED <<ex_vars, main_vars>>
    \/ RqReturnNone /\ UNCHANGED <<ex_vars, main_vars>>
    \/ RqMetaNotDict /\ UNCHANGED <<ex_vars, main_vars>>
    \/ RqReturnPayload /\ UNCHANGED <<ex_vars, main_vars>>
SpecRequest == RequestInit /\ [][RequestNext]_vars

\* --- the program run day after day by its scheduler
MaestroDiario == << Entrada(28092, "Móstoles", 5), Entrada(28079, "Madrid", 3) >>
\* the first municipality's forecast request fails, the capital's answers
RespuestasDiario == (28092 :> SinRespuesta) @@ (28079 :> PayloadNormal)

Init ==
    /\ ExIdle /\ RqIdle
    /\ modo \in {"completo", "capitales"}
    /\ filtro = ""
    /\ env_maestros = {MaestroOk(MaestroDiario)}
    /\ env_resp = RespuestasDiario
    /\ env_dur = {0}
    /\ clock = 0
    /\ data_json \in {DataMissing, DataCorrupt}
    /\ municipios_cache \in {CacheMissing, CacheCorrupt}
    /\ RunIdle /\ RateIdle

Next ==
    \/ Tick /\ UNCHANGED <<ex_vars, rq_vars>>
    \/ Iniciar /\ UNCHANGED <<ex_vars, rq_vars>>
    \/ ObtenerMunicipiosCache /\ UNCHANGED <<ex_vars, rq_vars>>
    \/ ObtenerMunicipiosRemoto /\ UNCHANGED <<ex_vars, rq_vars>>
    \/ FetchCompleto /\ UNCHANGED <<ex_vars, rq_vars>>
    \/ FetchCapital /\ UNCHANGED <<ex_vars, rq_vars>>
    \/ GuardarJson /\ UNCHANGED <<ex_vars, rq_vars>>

Spec == Init /\ [][Next]_vars

\* --- one run of a collector, for every directory, cache and answer pattern
MaxMunicipios == 4
EntradasCollect ==
    { Entrada(28079, "Madrid", 3), Entrada(28092, "Móstoles", 5),
      Entrada(99001, "Uno", 1), Entrada(99002, "Dos", 2) }
CodigosCollect == { e.cod : e \in EntradasCollect }
SinRepetir(l) == \A i, j \in DOMAIN l : i # j => l[i].cod # l[j].cod
\* an entry whose id lacks the "id" prefix, skipped by line 176
EntradaSinId == [idpref |-> FALSE, cod |-> 28092, nombre |-> "?", num_hab |-> NoKey]
MaestrosCollect ==
    { l \in SeqsUpTo(EntradasCollect, MaxMunicipios) : SinRepetir(l) }
    \cup { << EntradaSinId, Entrada(28079, "Madrid", 3) >> }
\* the cache files an earlier run may have left
CachesCollect ==
    { CacheMissing, CacheCorrupt }
    \cup { CacheDe(AgruparYOrdenar(l), f) :
              l \in { << Entrada(28079, "Madrid", 3), Entrada(28092, "Móstoles", 5) >>,
                      << Entrada(99001, "Uno", 1), Entrada(99002, "Dos", 2) >> },
              f \in 0..1 }

\* every pattern of absent and well-formed answers, and the same with a
\* malformed answer for one municipality
RespuestasCollect ==
    LET normales == [CodigosCollect -> {SinRespuesta, PayloadNormal}]
    IN normales \cup { [f EXCEPT ![28079] = PayloadSinDict] : f \in normales }

CollectInit ==
    /\ ExIdle /\ RqIdle
    /\ modo \in {"completo", "capitales"}
    /\ filtro \in (IF modo = "completo" THEN {"", "madr"} ELSE {""})
    /\ env_maestros = {MaestroFallo} \cup {MaestroOk(l) : l \in MaestrosCollect}
    /\ env_resp \in RespuestasCollect
    /\ env_dur = {0}
    /\ clock = 1
    /\ data_json = DataMissing
    /\ municipios_cache \in CachesCollect
    /\ RunIdle /\ RateIdle

CollectNext ==
    \/ Iniciar /\ UNCHANGED <<ex_vars, rq_vars>>
    \/ ObtenerMunicipiosCache /\ UNCHANGED <<ex_vars, rq_vars>>
    \/ ObtenerMunicipiosRemoto /\ UNCHANGED <<ex_vars, rq_vars>>
    \/ FetchCompleto /\ UNCHANGED <<ex_vars, rq_vars>>
    \/ FetchCapital /\ UNCHANGED <<ex_vars, rq_vars>>

SpecCollect == CollectInit /\ [][CollectNext]_vars

\* --- one full-mode run long enough to cross two batch boundaries
NumMunicipios == 45
MaestroGrande == [i \in 1..NumMunicipios |-> Entrada(28100 + i, "m", 1)]

RateInit ==
    /\ ExIdle /\ RqIdle
    /\ modo = "completo" /\ filtro = ""
    /\ env_maestros = {MaestroOk(MaestroGrande)}
    /\ \E x \in {SinRespuesta, PayloadNormal} :
          env_resp = [c \in {MaestroGrande[i].cod : i \in 1..NumMunicipios} |-> x]
    /\ env_dur = {0, Segundos(3)}
    /\ clock = 0
    /\ data_json = DataMissing
    /\ municipios_cache = CacheMissing
    /\ RunIdle /\ RateIdle

RateNext ==
    \/ Iniciar /\ UNCHANGED <<ex_vars, rq_vars>>
    \/ ObtenerMunicipiosCache /\ UNCHANGED <<ex_vars, rq_vars>>
    \/ ObtenerMunicipiosRemoto /\ UNCHANGED <<ex_vars, rq_vars>>
    \/ FetchCompleto /\ UNCHANGED <<ex_vars, rq_vars>>

SpecRate == RateInit /\ [][RateNext]_vars

\* ------------------------------------------------------------------------
\* Claims
\* ------------------------------------------------------------------------

\* C1 (as claimed): after any sequence of collect-then-merge runs the
\* persisted dataset holds at most one record for each (codigo, fecha) pair.
C1_OneRecordPerCodigoFecha ==
    \A i, j \in DOMAIN data_json.registros :
        (/\ data_json.registros[i].codigo = data_json.registros[j].codigo
         /\ data_json.registros[i].fecha = data_json.registros[j].fecha) => i = j

\* C2: when guardar_json finishes, no record of the written dataset is dated
\* strictly before today minus 7 days, and every record of the previous
\* dataset that is not dated today and not strictly before today minus 7
\* days is still in it.
C2_Retention ==
    [][(pc = "guardar" /\ pc' = "idle" /\ salida' = "ok") =>
          /\ \A i \in DOMAIN data_json'.registros :
                data_json'.registros[i].fecha >= clock - 7
          /\ \A i \in DOMAIN data_json.registros :
                LET r == data_json.registros[i]
                IN (r.fecha # clock /\ r.fecha >= clock - 7) =>
                      \E j \in DOMAIN data_json'.registros : data_json'.registros[j] = r
      ]_vars

\* C2 witness: a merge has just finished and the dataset it wrote holds, next
\* to today's records, the records dated exactly 7 days ago and some in between.
C2_Witness ==
    /\ pc = "idle" /\ salida = "ok" /\ data_json.estado = "ok"
    /\ data_json.actualizado = clock
    /\ Len(data_json.dias_disponibles) >= 3
    /\ \E i, j \in DOMAIN data_json.registros :
          /\ data_json.registros[i].fecha = clock - 7
          /\ data_json.registros[j].fecha = clock

\* C3 (as claimed): dias_disponibles, as written by guardar_json, never holds
\* more than 7 distinct dates.
C3_AtMostSevenDates ==
    Cardinality({data_json.dias_disponibles[i] : i \in DOMAIN data_json.dias_disponibles}) <= 7

\* C4: in full mode no more than 22 fetches are issued in a batch; the batch
\* ends at a control point, one for every 22 fetches, where the driver sleeps
\* the remainder of the 62-second window when less than 62 seconds have
\* elapsed since the batch started, so that a batch's window lasts at least
\* 62 seconds; across 44 fetches two control points are passed.
C4_BatchWindow ==
    /\ batch_fetches <= 22
    /\ controles = fetches \div 22
    /\ controles >= 1 =>
          /\ ultimo_control.antes_de = 22 * controles
          /\ ultimo_control.wait =
                (IF ultimo_control.elapsed < 620 THEN 620 - ultimo_control.elapsed ELSE 0)
          /\ ultimo_control.ventana >= 620

\* C4 witness: 44 fetches have been issued and before the 44th the driver
\* slept the remainder of the window.
C4_Witness ==
    /\ fetches = 44 /\ controles = 2
    /\ ultimo_control.antes_de = 44
    /\ ultimo_control.wait > 0
    /\ ultimo_control.elapsed + ultimo_control.wait = 620

\* C5 (as claimed): for every pattern of fetch outcomes, at every point of a
\* collection run the records emitted so far are, in schedule order, one for
\* each municipality already visited, with t_min and t_max absent where the
\* fetch returned absent; the run goes on to the municipalities scheduled
\* after it and ends only when the schedule is exhausted, never by an
\* exception raised while a municipality is processed.
C5_OneRecordPerScheduled ==
    /\ salida # "AttributeError"
    /\ pc \in {"loop", "guardar"} =>
          LET plan == Recorrido(provincias_mun, modo, 1)
              emitidos == Aplanar(resultados)
              hechos == Len(plan) - Len(cola)
          IN /\ cola = SubSeq(plan, hechos + 1, Len(plan))
             /\ Len(emitidos) = hechos
             /\ pc = "guardar" <=> cola = <<>>
             /\ \A i \in 1..hechos :
                   /\ emitidos[i].codigo = plan[i].mun.codigo
                   /\ emitidos[i].provincia = plan[i].provincia
                   /\ emitidos[i].fecha = hoy
                   /\ Falsy(env_resp[plan[i].mun.codigo]) =>
                         emitidos[i].min = None /\ emitidos[i].max = None

\* C6: aemet_request issues at most 3 first-hop requests and then ends; a 429
\* at attempt index a sleeps 30*(a+1) seconds and the call is retried, a
\* network failure sleeps 5 seconds and the call is retried, and when the 3
\* attempts are used up the result is absent; a payload is returned only when
\* the first hop had status 200, estado 200 and a data URL and the second hop
\* had status 200.
C6_RequestBounded ==
    /\ rq_requests <= 3
    /\ Len(rq_hist) = rq_requests
    /\ rq_pc = "loop" => rq_attempt < 3
    /\ \A i \in DOMAIN rq_hist :
          LET h == rq_hist[i]
              retried == i < Len(rq_hist) \/ rq_pc = "loop"
              exhausted == i = Len(rq_hist) /\ rq_pc = "done" /\ rq_result = "None"
          IN /\ h.attempt = i - 1
             /\ h.branch = "rate_limited" =>
                   /\ h.sleep = 30 * (h.attempt + 1)
                   /\ IF h.attempt + 1 < 3 THEN retried ELSE exhausted
             /\ h.branch = "RequestException" =>
                   IF h.attempt + 1 < 3 THEN h.sleep = 5 /\ retried ELSE exhausted
    /\ rq_result = "payload" =>
          /\ ~rq_last.net1 /\ rq_last.s1 = 200 /\ rq_last.estado = 200 /\ rq_last.datos
          /\ ~rq_last.net2 /\ rq_last.s2 = 200

\* C6 witness: three rate-limited or failed attempts, the third a 429 that
\* slept 90 seconds, after which the call returned absent.
C6_Witness ==
    /\ rq_pc = "done" /\ rq_result = "None" /\ rq_requests = 3
    /\ rq_hist[1].branch = "rate_limited"
    /\ rq_hist[2].branch = "RequestException" /\ rq_hist[2].sleep = 5
    /\ rq_hist[3].branch = "rate_limited" /\ rq_hist[3].sleep = 90

\* C7 (as claimed): a malformed persisted file is never propagated as an
\* error; with a corrupt cache file and a failed download the run goes on
\* with the empty mapping.
C7_CorruptNotPropagated == salida # "JSONDecodeError"

\* C8 (as claimed, for every call that returns): each component of the pair
\* _extraer_temp_dia returns is an integer or absent; a raw value that cannot
\* be converted to an integer yields absent.
C8_IntOrAbsent ==
    (ex_res.hecho /\ ex_res.exc = "") =>
        /\ ex_res.t_min.k \in {"None", "int"}
        /\ ex_res.t_max.k \in {"None", "int"}

\* C9 (as claimed): with at least one day entry, the result is read from the
\* entry matching the target date when there is one and from the first day's
\* block otherwise, whichever of the two shapes (dict or list) the block has.
C9_FallbackFirstDay ==
    (ex_res.hecho /\ ex_datos.forma = "ok" /\ ex_datos.dias # <<>>) =>
        LET i == PrimerMatch(ex_datos.dias, ex_objetivo, 1)
            bloque == ex_datos.dias[IF i = 0 THEN 1 ELSE i].temperatura
            leido == LeerTemperaturaMatch(bloque)
        IN /\ ex_res.exc = ""
           /\ ex_res.t_min = ConvertirAInt(leido.t_min)
           /\ ex_res.t_max = ConvertirAInt(leido.t_max)

\* C10: in capitals-only mode every province of the directory mapping gets
\* records: exactly its flagged municipalities when some are flagged, else
\* exactly one, for a municipality of the highest population in the province.
C10_CapitalOrLargest ==
    (modo = "capitales" /\ pc = "guardar") =>
        /\ Len(resultados) = Cardinality(DOMAIN provincias_mun)
        /\ {resultados[i].provincia : i \in DOMAIN resultados} = DOMAIN provincias_mun
        /\ \A i \in DOMAIN resultados :
              LET municipios == provincias_mun[resultados[i].provincia]
                  recs == resultados[i].datos
                  flagged == SelectSeq(municipios, LAMBDA m : m.es_capital)
              IN IF flagged # <<>>
                 THEN [k \in DOMAIN recs |-> recs[k].codigo]
                         = [k \in DOMAIN flagged |-> flagged[k].codigo]
                 ELSE /\ Len(recs) = 1
                      /\ \E k \in DOMAIN municipios :
                            /\ municipios[k].codigo = recs[1].codigo
                            /\ \A l \in DOMAIN municipios :
                                  municipios[l].habitantes <= municipios[k].habitantes

\* C10 witness: a finished capitals run over a province with a flagged
\* municipality and a larger unflagged one, and a province of two
\* municipalities with none flagged, represented by the larger.
C10_Witness ==
    /\ modo = "capitales" /\ pc = "guardar"
    /\ DOMAIN provincias_mun = {"Madrid", "Provincia 99"}
    /\ Len(provincias_mun["Madrid"]) = 2 /\ Len(provincias_mun["Provincia 99"]) = 2
    /\ \E i, j \in DOMAIN resultados :
          /\ resultados[i].provincia = "Madrid"
          /\ Len(resultados[i].datos) = 1 /\ resultados[i].datos[1].codigo = 28079
          /\ resultados[j].provincia = "Provincia 99"
          /\ Len(resultados[j].datos) = 1 /\ resultados[j].datos[1].codigo = 99002

\* C11 (as claimed): every record a guardar_json call appends carries the
\* date that call uses as today when it deletes the stored records of today,
\* also when collection started on one day and the merge runs after midnight.
C11_AppendedDatedToday ==
    [][(pc = "guardar" /\ pc' = "idle" /\ salida' = "ok") =>
          \A i \in DOMAIN Aplanar(resultados) :
              /\ Aplanar(resultados)[i].fecha = clock
              /\ \E j \in DOMAIN data_json'.registros :
                    data_json'.registros[j] = Aplanar(resultados)[i]
      ]_vars

====
